---- MODULE Spec2Model ----
(***************************************************************************)
(* Track-region crossing and traveler impact engine of the hurricane       *)
(* county dashboard (src/test_county_map.py).                              *)
(*                                                                         *)
(* Conventions                                                             *)
(*   - time is counted in minutes since day 0, 00:00; a datetime is        *)
(*     [t, aware], aware = carries a UTC offset (the string had a "Z");    *)
(*   - an optional number (dict.get(...) that may be None) is a sequence   *)
(*     of length 0 or 1;                                                   *)
(*   - indices named idx, i, j are Python's 0-based indices; a sequence    *)
(*     s is read at Python index i as s[i + 1];                            *)
(*   - relative_hours / relative_days are kept in hundredths (2 decimals); *)
(*   - a polygon ring is an axis-aligned rectangle <<x1, y1, x2, y2>>      *)
(*     (x = longitude, y = latitude), standing for the closed ring         *)
(*     [[x1,y1],[x2,y1],[x2,y2],[x1,y2],[x1,y1]].                          *)
(***************************************************************************)
EXTENDS Integers, Sequences, FiniteSets, TLC

VARIABLES
    track_records,        \* input: list of raw track samples
    counties_geojson,     \* input: list of features of the feature collection
    df_travelers,         \* input: exposure rows (county_fips, date, expected_travelers)
    scenario_start_date,  \* input: optional scenario start date (day number)
    shapely,              \* environment: `import shapely.geometry` succeeds
    now,                  \* the wall clock read by datetime.now(), in minutes
    pc,                   \* position of the dashboard script
    track_coords,         \* local track_coords of the last crossing run
    start_time,           \* local start_time of the last crossing run
    county_scan,          \* per-feature locals of the last crossing run
    crossing_outcome,     \* how get_counties_crossed_with_timing returned
    df_counties,          \* rows returned by get_counties_crossed_with_timing
    crossed_fips,         \* the caller's set of county_fips of df_counties
    impact_outcome,       \* how calculate_impacted_travelers returned (baseline)
    df_impact,            \* rows returned by calculate_impacted_travelers (baseline)
    scenario_outcome,     \* how calculate_impacted_travelers returned (scenario)
    df_impact_scenario,   \* rows returned by calculate_impacted_travelers (scenario)
    diff,                 \* scenario total minus baseline total
    pct_change,           \* diff as a percentage of the baseline total
    comparison_df,        \* rows of the side-by-side comparison table
    prev_run,             \* outputs of the previous run on the same inputs
    df_zip_travelers,     \* input: zip-level exposure rows (zip, date, expected_travelers)
    df_zip_fips,          \* input: zip-to-FIPS mapping rows (ZIP, FIPS)
    date,                 \* input: start date of the sidebar (day number)
    zip_pc,               \* position of the script in the zip-level data path
    df_travelers_loaded,  \* rows returned by load_traveler_data_from_zip (baseline)
    df_zip_travelers_scenario,  \* the date-shifted copy of df_zip_travelers
    df_travelers_scenario \* rows returned by load_traveler_data_from_zip (scenario)

vars == <<track_records, counties_geojson, df_travelers, scenario_start_date,
          shapely, now, pc, track_coords, start_time, county_scan,
          crossing_outcome, df_counties, crossed_fips,
          impact_outcome, df_impact, scenario_outcome, df_impact_scenario,
          diff, pct_change, comparison_df, prev_run,
          df_zip_travelers, df_zip_fips, date, zip_pc, df_travelers_loaded,
          df_zip_travelers_scenario, df_travelers_scenario>>

inputs == <<track_records, counties_geojson, df_travelers, scenario_start_date,
            shapely, df_zip_travelers, df_zip_fips, date>>

\* The locals of the zip-level data path.
zip_locals == <<zip_pc, df_travelers_loaded, df_zip_travelers_scenario,
                df_travelers_scenario>>

\* Everything the zip-level data path does not touch.
script == <<track_records, counties_geojson, df_travelers, scenario_start_date,
            shapely, date, now, pc, track_coords, start_time, county_scan,
            crossing_outcome, df_counties, crossed_fips, impact_outcome,
            df_impact, scenario_outcome, df_impact_scenario, diff, pct_change,
            comparison_df, prev_run>>

\* The locals of the what-if comparison.
comparison == <<diff, pct_change, comparison_df>>

(***************************************************************************)
(* Bounds of the model.                                                    *)
(***************************************************************************)
MaxTrack == 3
MaxFeatures == 2
MaxZipRows == 2
MaxMapRows == 2

(***************************************************************************)
(* Durations, in minutes.                                                  *)
(***************************************************************************)
Hour == 60
Day == 1440

(***************************************************************************)
(* Python values.                                                          *)
(***************************************************************************)
\* None for an optional number, and Some(v).
NoValue == <<>>
Some(v) == <<v>>

\* Truthiness of an optional number: `if r.get('lat')` is false for None
\* and for 0 / 0.0.
Truthy(opt) == opt # NoValue /\ opt[1] # 0

\* valid_time of a track sample: absent (None or ""), a string that
\* datetime.fromisoformat rejects, or an ISO-8601 string, with or without "Z".
NoTime == [kind |-> "none", t |-> 0, utc |-> FALSE]
BadTime == [kind |-> "bad", t |-> 0, utc |-> FALSE]
IsoTime(t, utc) == [kind |-> "iso", t |-> t, utc |-> utc]

\* `if r.get('valid_time')`.
HasValidTime(r) == r.valid_time.kind # "none"

\* datetime.fromisoformat(s.replace('Z', '+00:00')) raises on a bad string.
CanParse(vt) == vt.kind = "iso"

\* The datetime it returns: aware exactly when the string carried "Z".
FromIsoFormat(vt) == [t |-> vt.t, aware |-> vt.utc]

\* datetime.now(): a naive datetime.
DatetimeNow(clock) == [t |-> clock, aware |-> FALSE]

\* datetime + timedelta(hours = h).
PlusHours(dt, h) == [t |-> dt.t + h * Hour, aware |-> dt.aware]

\* datetime - datetime raises TypeError when exactly one of them is aware.
CanSubtract(a, b) == a.aware = b.aware

\* round(x, 2) of the exact quotient n / d (d > 0), in hundredths when n is
\* given in hundredths: Python rounds an exact tie to the even neighbour.
RoundHalfEven(n, d) ==
    LET q == n \div d
        r == n % d
    IN  IF 2 * r < d THEN q
        ELSE IF 2 * r > d THEN q + 1
        ELSE IF q % 2 = 0 THEN q ELSE q + 1

\* crossing_time.strftime('%Y-%m-%d %H:%M:%S'): the date part and the
\* time-of-day part of the string (its two space-separated fields).
Strftime(dt) == [date |-> dt.t \div Day, time |-> dt.t % Day]

(***************************************************************************)
(* Geometry (shapely), on rectangles.                                      *)
(***************************************************************************)
Min2(a, b) == IF a < b THEN a ELSE b
Max2(a, b) == IF a > b THEN a ELSE b

\* Polygon.contains(Point): the point lies in the interior.
RingContains(ring, p) ==
    /\ ring[1] < p[1] /\ p[1] < ring[3]
    /\ ring[2] < p[2] /\ p[2] < ring[4]

\* Polygon.touches(Point): the point lies on the boundary.
RingTouches(ring, p) ==
    /\ ring[1] <= p[1] /\ p[1] <= ring[3]
    /\ ring[2] <= p[2] /\ p[2] <= ring[4]
    /\ ~RingContains(ring, p)

\* Side of corner c relative to the line through a and b (cross product).
Side(a, b, c) == (b[1] - a[1]) * (c[2] - a[2]) - (b[2] - a[2]) * (c[1] - a[1])

RingCorners(ring) ==
    {<<ring[1], ring[2]>>, <<ring[3], ring[2]>>,
     <<ring[3], ring[4]>>, <<ring[1], ring[4]>>}

\* Polygon.intersects(LineString([a, b])): the segment and the closed
\* rectangle share a point (their bounding boxes overlap and the corners are
\* not all strictly on one side of the segment's line).
RingIntersects(ring, line) ==
    LET a == line[1]
        b == line[2]
    IN  /\ Max2(a[1], b[1]) >= ring[1] /\ Min2(a[1], b[1]) <= ring[3]
        /\ Max2(a[2], b[2]) >= ring[2] /\ Min2(a[2], b[2]) <= ring[4]
        /\ ~(\A c \in RingCorners(ring) : Side(a, b, c) > 0)
        /\ ~(\A c \in RingCorners(ring) : Side(a, b, c) < 0)

\* geom.Polygon(coords[0]) or geom.MultiPolygon([geom.Polygon(p[0]) ...]):
\* the outer rings of the geometry.
BuildPolygon(geometry) ==
    IF geometry.type = "Polygon"
    THEN <<geometry.coordinates[1]>>
    ELSE [k \in 1..Len(geometry.coordinates) |-> geometry.coordinates[k][1]]

\* polygon.contains(point) or polygon.touches(point).
PointTriggers(polygon, p) ==
    \E k \in 1..Len(polygon) :
        RingContains(polygon[k], p) \/ RingTouches(polygon[k], p)

\* polygon.intersects(line) or polygon.crosses(line).
LineTriggers(polygon, line) ==
    \E k \in 1..Len(polygon) : RingIntersects(polygon[k], line)

(***************************************************************************)
(* get_counties_crossed_with_timing                                        *)
(***************************************************************************)
\* The filter of the list comprehension `if r.get('lat') and r.get('lon')`.
IsRetained(r) == Truthy(r.lat) /\ Truthy(r.lon)

\* The (lat, lon) pair of a sample that passed the filter.
LatLon(r) == <<r.lat[1], r.lon[1]>>

\* geom.Point(lon, lat).
PointOf(coord) == <<coord[2], coord[1]>>

MapLatLon(kept) == [k \in 1..Len(kept) |-> LatLon(kept[k])]

\* track_coords: the (lat, lon) pairs of the samples that pass the filter.
TrackCoords(records) == MapLatLon(SelectSeq(records, IsRetained))

MapPoints(coords) == [k \in 1..Len(coords) |-> PointOf(coords[k])]

\* track_points: geom.Point(lon, lat) for each pair of track_coords.
TrackPoints(records) == MapPoints(TrackCoords(records))

MapLines(points) == [k \in 1..(Len(points) - 1) |-> <<points[k], points[k + 1]>>]

\* track_lines: a LineString between each two consecutive track_coords.
TrackLines(records) == MapLines(TrackPoints(records))

\* Mutant: start_time is always the clock.
ParseStartTime_AlwaysNow(records, clock) == DatetimeNow(clock)

\* Mutant: start_time is read from the last record of the track.
ParseStartTime_LastRecord(records, clock) ==
    IF HasValidTime(records[Len(records)]) /\ CanParse(records[Len(records)].valid_time)
    THEN FromIsoFormat(records[Len(records)].valid_time)
    ELSE DatetimeNow(clock)

\* start_time, from track_records[0], else datetime.now().
ParseStartTime(records, clock) ==
    IF HasValidTime(records[1]) /\ CanParse(records[1].valid_time)
    THEN FromIsoFormat(records[1].valid_time)
    ELSE DatetimeNow(clock)

\* Mutant: the timestamp is read from the retained samples, the sample of
\* track_points[i].
PointCrossingTime_Kept(records, i, start) ==
    IF /\ HasValidTime(SelectSeq(records, IsRetained)[i + 1])
       /\ CanParse(SelectSeq(records, IsRetained)[i + 1].valid_time)
    THEN FromIsoFormat(SelectSeq(records, IsRetained)[i + 1].valid_time)
    ELSE PlusHours(start, i * 6)

\* crossing_time of a point crossing at index i: read from track_records[i].
PointCrossingTime(records, i, start) ==
    IF HasValidTime(records[i + 1]) /\ CanParse(records[i + 1].valid_time)
    THEN FromIsoFormat(records[i + 1].valid_time)
    ELSE PlusHours(start, i * 6)

\* t1 + (t2 - t1) / 2.  The halving is exact for the timestamps of the
\* model, which are whole hours.
Midpoint(t1, t2) == [t |-> t1.t + (t2.t - t1.t) \div 2, aware |-> t1.aware]

\* crossing_time of a segment crossing at index i: the midpoint of
\* track_records[i] and track_records[i+1]; any exception in the try block
\* (a bad string, or t2 - t1 between a naive and an aware datetime) falls
\* back to start_time + 6h * i + 3h.
SegmentCrossingTime(records, i, start) ==
    IF /\ HasValidTime(records[i + 1]) /\ HasValidTime(records[i + 2])
       /\ CanParse(records[i + 1].valid_time)
       /\ CanParse(records[i + 2].valid_time)
       /\ CanSubtract(FromIsoFormat(records[i + 2].valid_time),
                      FromIsoFormat(records[i + 1].valid_time))
    THEN Midpoint(FromIsoFormat(records[i + 1].valid_time),
                  FromIsoFormat(records[i + 2].valid_time))
    ELSE PlusHours(start, i * 6 + 3)

\* The least element of a set of 1-based positions as a 0-based index, or
\* -1 for the empty set.
LeastIndex(S) ==
    IF S = {} THEN -1 ELSE (CHOOSE k \in S : \A m \in S : k <= m) - 1

\* The first index (0-based) at which the test of a loop succeeds, or -1,
\* given the test's result for every element: a `for i, x in enumerate(...)`
\* left by `break` at the first hit.
FirstIndex(hits) == LeastIndex({k \in 1..Len(hits) : hits[k]})

\* Mutant: the segments are scanned first.
CrossingAt_SegmentsFirst(records, start, ip, il) ==
    IF il >= 0
    THEN [found |-> TRUE, by |-> "segment", first_crossing_idx |-> il,
          crossing_time |-> SegmentCrossingTime(records, il, start)]
    ELSE IF ip >= 0
    THEN [found |-> TRUE, by |-> "point", first_crossing_idx |-> ip,
          crossing_time |-> PointCrossingTime(records, ip, start)]
    ELSE [found |-> FALSE, by |-> "none", first_crossing_idx |-> -1,
          crossing_time |-> start]

\* The locals after both scans, given the first triggering point ip and
\* the first triggering segment il (-1: none): "Check points first", then
\* "Check line segments if no point found".
CrossingAt(records, start, ip, il) ==
    IF ip >= 0
    THEN [found |-> TRUE, by |-> "point", first_crossing_idx |-> ip,
          crossing_time |-> PointCrossingTime(records, ip, start)]
    ELSE IF il >= 0
    THEN [found |-> TRUE, by |-> "segment", first_crossing_idx |-> il,
          crossing_time |-> SegmentCrossingTime(records, il, start)]
    ELSE [found |-> FALSE, by |-> "none", first_crossing_idx |-> -1,
          crossing_time |-> start]

FindFirstCrossing(polygon, records, start) ==
    CrossingAt(records, start,
               FirstIndex([k \in 1..Len(TrackPoints(records)) |->
                               PointTriggers(polygon, TrackPoints(records)[k])]),
               FirstIndex([k \in 1..Len(TrackLines(records)) |->
                               LineTriggers(polygon, TrackLines(records)[k])]))

\* Mutant: relative_days is computed from the rounded relative_hours.
CountyRow_DaysFromRounded(fips, record, crossing_time, start) ==
    [county_fips |-> fips,
     expected_time |-> Strftime(crossing_time),
     relative_hours |-> RoundHalfEven((crossing_time.t - start.t) * 100, Hour),
     relative_days |->
         RoundHalfEven(RoundHalfEven((crossing_time.t - start.t) * 100, Hour), 24),
     lat |-> record.lat,
     lon |-> record.lon,
     wind_speed_knots |-> record.maximum_sustained_wind_speed_knots,
     pressure_hpa |-> record.minimum_sea_level_pressure_hpa,
     radius_km |-> record.radius_34_knot_winds_ne_km]

\* The dict appended to county_data.
CountyRow(fips, record, crossing_time, start) ==
    LET minutes == crossing_time.t - start.t
    IN  [county_fips |-> fips,
         expected_time |-> Strftime(crossing_time),
         relative_hours |-> RoundHalfEven(minutes * 100, Hour),
         relative_days |-> RoundHalfEven(minutes * 100, Day),
         lat |-> record.lat,
         lon |-> record.lon,
         wind_speed_knots |-> record.maximum_sustained_wind_speed_knots,
         pressure_hpa |-> record.minimum_sea_level_pressure_hpa,
         radius_km |-> record.radius_34_knot_winds_ne_km]

NoRow ==
    [county_fips |-> "", expected_time |-> [date |-> 0, time |-> 0],
     relative_hours |-> 0, relative_days |-> 0, lat |-> NoValue,
     lon |-> NoValue, wind_speed_knots |-> NoValue, pressure_hpa |-> NoValue,
     radius_km |-> NoValue]

NoScan == [status |-> "skip", by |-> "none", first_crossing_idx |-> -1,
           row |-> NoRow]

\* `if first_crossing_idx is not None:` and the row it appends, given the
\* locals c of the scans; the subtraction crossing_time - start_time raises
\* TypeError between a naive and an aware datetime.
AppendRow(fips, records, start, c) ==
    IF ~c.found THEN [NoScan EXCEPT !.status = "none"]
    ELSE IF ~CanSubtract(c.crossing_time, start)
    THEN [status |-> "raise", by |-> c.by,
          first_crossing_idx |-> c.first_crossing_idx, row |-> NoRow]
    ELSE [status |-> "hit", by |-> c.by,
          first_crossing_idx |-> c.first_crossing_idx,
          row |-> CountyRow(fips, records[c.first_crossing_idx + 1],
                            c.crossing_time, start)]

\* One iteration of `for feature in counties_geojson.get('features', [])`:
\*   skip   the feature has no id, or an unsupported geometry type;
\*   raise  an exception leaves the loop (null geometry; a geometry without
\*          "coordinates", read before the type is looked at; subtraction
\*          of a naive and an aware datetime in relative_hours);
\*   none   neither a point nor a segment triggers;
\*   hit    a row is appended to county_data.
ScanFeature(feature, records, start) ==
    IF feature.id = "" THEN NoScan
    ELSE IF ~feature.geometry.present THEN [NoScan EXCEPT !.status = "raise"]
    ELSE IF ~feature.geometry.has_coordinates THEN [NoScan EXCEPT !.status = "raise"]
    ELSE IF feature.geometry.type \notin {"Polygon", "MultiPolygon"} THEN NoScan
    ELSE AppendRow(feature.id, records, start,
                   FindFirstCrossing(BuildPolygon(feature.geometry), records, start))

\* DataFrame.sort_values('relative_hours'): ascending, rows with equal keys
\* keep their order (the insertion sort numpy applies to short arrays).
RECURSIVE InsertSorted(_, _)
InsertSorted(sorted, row) ==
    IF sorted = <<>> THEN <<row>>
    ELSE IF Head(sorted).relative_hours <= row.relative_hours
    THEN <<Head(sorted)>> \o InsertSorted(Tail(sorted), row)
    ELSE <<row>> \o sorted

\* Mutant: the rows are returned in the order they were appended.
SortValues_AsAppended(rows) == rows

\* Mutant: the rows are sorted in descending order.
RECURSIVE InsertDescending(_, _)
InsertDescending(sorted, row) ==
    IF sorted = <<>> THEN <<row>>
    ELSE IF Head(sorted).relative_hours >= row.relative_hours
    THEN <<Head(sorted)>> \o InsertDescending(Tail(sorted), row)
    ELSE <<row>> \o sorted

RECURSIVE SortValues_Descending(_)
SortValues_Descending(rows) ==
    IF rows = <<>> THEN <<>>
    ELSE InsertDescending(SortValues_Descending(SubSeq(rows, 1, Len(rows) - 1)),
                          rows[Len(rows)])

RECURSIVE SortValues(_)
SortValues(rows) ==
    IF rows = <<>> THEN <<>>
    ELSE InsertSorted(SortValues(SubSeq(rows, 1, Len(rows) - 1)), rows[Len(rows)])

IsHit(scan) == scan.status = "hit"
IsRaise(scan) == scan.status = "raise"

MapRows(hits) == [k \in 1..Len(hits) |-> hits[k].row]

\* The rows of county_data, in detection order.
CountyData(scans) == MapRows(SelectSeq(scans, IsHit))

NoStartTime == [t |-> 0, aware |-> FALSE]

\* The loop iterations that ran: all of them, or those up to the first that
\* raised (0-based index stop).
UpTo(all, stop) == IF stop >= 0 THEN SubSeq(all, 1, stop + 1) ELSE all

LoopScans(records, features, start) ==
    UpTo([k \in 1..Len(features) |-> ScanFeature(features[k], records, start)],
         FirstIndex([k \in 1..Len(features) |->
                         IsRaise(ScanFeature(features[k], records, start))]))

\* Mutant: the function has no `except Exception` handler.
ReturnCounties_Uncaught(start, scans, raised, county_data) ==
    IF raised \/ county_data = <<>>
    THEN [outcome |-> "raised", rows |-> <<>>, scans |-> scans,
          start_time |-> start]
    ELSE [outcome |-> "returned", rows |-> SortValues(county_data),
          scans |-> scans, start_time |-> start]

\* How the function ends after the loop, given county_data: an exception
\* in the loop, or the KeyError that sort_values('relative_hours') raises
\* on the DataFrame of an empty county_data, reaches `except Exception`.
ReturnCounties(start, scans, raised, county_data) ==
    IF raised \/ county_data = <<>>
    THEN [outcome |-> "error", rows |-> <<>>, scans |-> scans,
          start_time |-> start]
    ELSE [outcome |-> "returned", rows |-> SortValues(county_data),
          scans |-> scans, start_time |-> start]

AfterLoop(start, scans) ==
    ReturnCounties(start, scans, \E k \in 1..Len(scans) : IsRaise(scans[k]),
                   CountyData(scans))

\* The whole function.  outcome:
\*   unavailable  `import shapely.geometry` raised ImportError, caught by
\*                `except ImportError` (st.warning, empty DataFrame);
\*   no_track     `if not track_records: return pd.DataFrame()`;
\*   error        an exception reached `except Exception` (st.error, empty
\*                DataFrame);
\*   returned     the sorted DataFrame was returned.
\* scans holds the loop iterations that ran.
GetCountiesCrossedWithTiming(installed, records, features, clock) ==
    IF ~installed
    THEN [outcome |-> "unavailable", rows |-> <<>>, scans |-> <<>>,
          start_time |-> NoStartTime]
    ELSE IF records = <<>>
    THEN [outcome |-> "no_track", rows |-> <<>>, scans |-> <<>>,
          start_time |-> NoStartTime]
    ELSE AfterLoop(ParseStartTime(records, clock),
                   LoopScans(records, features, ParseStartTime(records, clock)))

\* set(df['county_fips'].tolist()) if not df.empty else set(): what
\* get_counties_crossed returns and the dashboard keeps as crossed_fips.
GetCountiesCrossed(df) == {df[k].county_fips : k \in 1..Len(df)}

(***************************************************************************)
(* calculate_impacted_travelers                                            *)
(***************************************************************************)
\* Mutant: relative_days is rounded to the nearest whole day.
NewImpactDate_Rounded(county_row, scenario) ==
    IF scenario # NoValue
    THEN scenario[1] + RoundHalfEven(county_row.relative_days, 100)
    ELSE county_row.expected_time.date

\* new_impact_date: the date of start + timedelta(days = relative_days)
\* when a scenario start date is given (start is midnight of that date),
\* else the date part of the row's expected_time.
NewImpactDate(county_row, scenario) ==
    IF scenario # NoValue
    THEN (scenario[1] * 100 + county_row.relative_days) \div 100
    ELSE county_row.expected_time.date

\* df_travelers[(county_fips == fips) & (date == new_impact_date)].
CountyTravelers(travelers, fips, new_impact_date) ==
    LET Match(t) == t.county_fips = fips /\ t.date = new_impact_date
    IN  SelectSeq(travelers, Match)

\* Mutant: the scenario row keeps the expected_time of the crossing row.
ImpactRow_NotRestamped(county_row, scenario, matched) ==
        [county_fips |-> county_row.county_fips,
         impact_date |-> NewImpactDate(county_row, scenario),
         expected_time |-> county_row.expected_time,
         relative_hours |-> county_row.relative_hours,
         relative_days |-> county_row.relative_days,
         travelers_impacted |-> matched[1].expected_travelers,
         wind_speed_knots |-> county_row.wind_speed_knots,
         pressure_hpa |-> county_row.pressure_hpa,
         radius_km |-> county_row.radius_km]

\* The dict appended to impact_data for a row with a match.
ImpactRow(county_row, scenario, matched) ==
        [county_fips |-> county_row.county_fips,
         impact_date |-> NewImpactDate(county_row, scenario),
         expected_time |-> IF scenario = NoValue THEN county_row.expected_time
                           ELSE [date |-> NewImpactDate(county_row, scenario),
                                 time |-> county_row.expected_time.time],
         relative_hours |-> county_row.relative_hours,
         relative_days |-> county_row.relative_days,
         travelers_impacted |-> matched[1].expected_travelers,
         wind_speed_knots |-> county_row.wind_speed_knots,
         pressure_hpa |-> county_row.pressure_hpa,
         radius_km |-> county_row.radius_km]

\* Mutant: one row is emitted for every exposure row of the region,
\* whatever its date.
ImpactOf_EveryExposureRow(county_row, travelers, scenario) ==
    LET Region(t) == t.county_fips = county_row.county_fips
    IN  [k \in 1..Len(SelectSeq(travelers, Region)) |->
            ImpactRow(county_row, scenario, <<SelectSeq(travelers, Region)[k]>>)]

\* Mutant: a row without a match is emitted with count 0.
ImpactOf_ZeroFill(county_row, travelers, scenario) ==
    IF CountyTravelers(travelers, county_row.county_fips,
                       NewImpactDate(county_row, scenario)) # <<>>
    THEN <<ImpactRow(county_row, scenario,
                     CountyTravelers(travelers, county_row.county_fips,
                                     NewImpactDate(county_row, scenario)))>>
    ELSE <<ImpactRow(county_row, scenario, <<[expected_travelers |-> 0]>>)>>

\* The rows appended to impact_data for one row of df_counties: one when
\* the lookup matched, none otherwise.
ImpactOf(county_row, travelers, scenario) ==
    IF CountyTravelers(travelers, county_row.county_fips,
                       NewImpactDate(county_row, scenario)) # <<>>
    THEN <<ImpactRow(county_row, scenario,
                     CountyTravelers(travelers, county_row.county_fips,
                                     NewImpactDate(county_row, scenario)))>>
    ELSE <<>>

\* impact_data after `for _, county_row in df_counties.iterrows()`.
RECURSIVE ImpactData(_, _, _)
ImpactData(counties, travelers, scenario) ==
    IF counties = <<>> THEN <<>>
    ELSE ImpactOf(Head(counties), travelers, scenario)
         \o ImpactData(Tail(counties), travelers, scenario)

\* How the function ends, given impact_data.
ReturnImpact(impact_data) ==
    IF impact_data = <<>>
    THEN [outcome |-> "raised", rows |-> <<>>]
    ELSE [outcome |-> "returned", rows |-> SortValues(impact_data)]

\* The whole function.  outcome:
\*   empty_input  `if df_counties.empty or df_travelers.empty`;
\*   raised       sort_values('relative_hours') on the DataFrame of an empty
\*                impact_data raises KeyError, which nothing catches;
\*   returned     the sorted DataFrame was returned.
CalculateImpactedTravelers(counties, travelers, scenario) ==
    IF counties = <<>> \/ travelers = <<>>
    THEN [outcome |-> "empty_input", rows |-> <<>>]
    ELSE ReturnImpact(ImpactData(counties, travelers, scenario))

(***************************************************************************)
(* What-if scenario comparison                                             *)
(***************************************************************************)
\* df['travelers_impacted'].sum()
RECURSIVE SumTravelers(_)
SumTravelers(df) ==
    IF df = <<>> THEN 0
    ELSE Head(df).travelers_impacted + SumTravelers(Tail(df))

\* diff = scenario total - baseline total.
Difference(scenario, baseline) == SumTravelers(scenario) - SumTravelers(baseline)

\* Mutant: the division is not guarded; a zero denominator is the fault.
PctChange_Unguarded(d, baseline_total) == [num |-> d * 100, den |-> baseline_total]

\* pct_change = (diff / total * 100) if total > 0 else 0, kept as the exact
\* quotient num / den.
PctChange(d, baseline_total) ==
    IF baseline_total > 0
    THEN [num |-> d * 100, den |-> baseline_total]
    ELSE [num |-> 0, den |-> 1]

\* Series.fillna(0) on one cell: an absent value (NaN) reads as 0.
FillNa0(cell) == IF cell = <<>> THEN 0 ELSE cell[1]

\* One row of the merged frame from the baseline row and the scenario row
\* of a key, each present (a one-element sequence) or absent (empty):
\* the renamed columns and the difference column.
ComparisonRow(fips, original, scenario) ==
    [county_fips |-> fips,
     original_date |-> [k \in 1..Len(original) |-> original[k].impact_date],
     original_travelers |->
         [k \in 1..Len(original) |-> original[k].travelers_impacted],
     scenario_date |-> [k \in 1..Len(scenario) |-> scenario[k].impact_date],
     scenario_travelers |->
         [k \in 1..Len(scenario) |-> scenario[k].travelers_impacted],
     difference |->
         FillNa0([k \in 1..Len(scenario) |-> scenario[k].travelers_impacted])
         - FillNa0([k \in 1..Len(original) |-> original[k].travelers_impacted])]

\* Mutant: an inner join, a key of one side only gives no row.
KeyRows_Inner(fips, L, R) ==
    [k \in 1..(Len(L) * Len(R)) |->
        ComparisonRow(fips, <<L[((k - 1) \div Len(R)) + 1]>>,
                      <<R[((k - 1) % Len(R)) + 1]>>)]

\* The rows of how='outer' for one key, given the rows L of the left frame
\* and R of the right frame with that key: every pair of a left and a right
\* row, or the rows of the only side that has the key next to NaN.
KeyRows(fips, L, R) ==
    IF R = <<>>
    THEN [k \in 1..Len(L) |-> ComparisonRow(fips, <<L[k]>>, <<>>)]
    ELSE IF L = <<>>
    THEN [k \in 1..Len(R) |-> ComparisonRow(fips, <<>>, <<R[k]>>)]
    ELSE [k \in 1..(Len(L) * Len(R)) |->
             ComparisonRow(fips, <<L[((k - 1) \div Len(R)) + 1]>>,
                           <<R[((k - 1) % Len(R)) + 1]>>)]

\* The rows of a frame whose county_fips is fips.
WithFips(df, fips) ==
    LET Same(r) == r.county_fips = fips
    IN  SelectSeq(df, Same)

\* The region ids of the model in lexicographic order: an outer merge
\* sorts the join keys lexicographically.
Lexicographic == <<"A", "B", "M", "N">>

RECURSIVE MergeKeys(_, _, _)
MergeKeys(keys, left, right) ==
    IF keys = <<>> THEN <<>>
    ELSE KeyRows(Head(keys), WithFips(left, Head(keys)), WithFips(right, Head(keys)))
         \o MergeKeys(Tail(keys), left, right)

\* pd.merge(baseline, scenario, on='county_fips', how='outer') with the
\* difference column.
ComparisonDf(baseline, scenario) == MergeKeys(Lexicographic, baseline, scenario)

NoPct == [num |-> 0, den |-> 1]

(***************************************************************************)
(* load_traveler_data_from_zip and the date shift of the what-if analysis  *)
(*   - a zip code is the sequence of its decimal digits (read_csv yields   *)
(*     501 for the cell 00501: the sequence <<5, 0, 1>>);                  *)
(*   - a date string 'YYYY-MM-DD' is its day number.                       *)
(***************************************************************************)
\* Mutant: the frame is modified in place, without .copy().
CallerFrame_InPlace(original, modified) == modified

\* What the caller's DataFrame holds after `df = df.copy()` followed by
\* column assignments on df: the assignments land in the copy.
CallerFrame(original, modified) == original

\* str.zfill(width) on the digits of astype(str).
RECURSIVE ZFill(_, _)
ZFill(digits, width) ==
    IF Len(digits) >= width THEN digits ELSE ZFill(<<0>> \o digits, width)

\* df_zip_travelers[zip_col].astype(str).str.zfill(5)
NormalizeZips(df) == [k \in 1..Len(df) |-> [df[k] EXCEPT !.zip = ZFill(@, 5)]]

\* The rows of the merge for one left row: one per mapping row with its ZIP.
MergeRows(row, zip_fips) ==
    LET Match(m) == m.ZIP = row.zip
    IN  [k \in 1..Len(SelectSeq(zip_fips, Match)) |->
            [zip |-> row.zip, date |-> row.date,
             expected_travelers |-> row.expected_travelers,
             ZIP |-> SelectSeq(zip_fips, Match)[k].ZIP,
             FIPS |-> SelectSeq(zip_fips, Match)[k].FIPS]]

\* df_zip_travelers.merge(df_zip_fips, left_on=zip_col, right_on='ZIP',
\* how='inner').
RECURSIVE MergeInner(_, _)
MergeInner(zip_travelers, zip_fips) ==
    IF zip_travelers = <<>> THEN <<>>
    ELSE MergeRows(Head(zip_travelers), zip_fips)
         \o MergeInner(Tail(zip_travelers), zip_fips)

\* [travelers_col].sum() of one group.
RECURSIVE GroupSum(_, _, _)
GroupSum(merged, fips, d) ==
    IF merged = <<>> THEN 0
    ELSE (IF Head(merged).FIPS = fips /\ Head(merged).date = d
          THEN Head(merged).expected_travelers ELSE 0)
         + GroupSum(Tail(merged), fips, d)

\* The elements of a set of numbers, ascending.
RECURSIVE SortedDates(_)
SortedDates(S) ==
    IF S = {} THEN <<>>
    ELSE <<CHOOSE d \in S : \A e \in S : d <= e>>
         \o SortedDates(S \ {CHOOSE d \in S : \A e \in S : d <= e})

\* The groups of one FIPS code, ascending by date.
GroupsOf(merged, fips) ==
    LET dates == SortedDates({merged[k].date : k \in {n \in 1..Len(merged) :
                                                        merged[n].FIPS = fips}})
    IN  [k \in 1..Len(dates) |->
            [county_fips |-> fips, date |-> dates[k],
             expected_travelers |-> GroupSum(merged, fips, dates[k])]]

\* groupby(['FIPS', date_col])[travelers_col].sum().reset_index(), renamed:
\* one row per group, the groups sorted by FIPS, then by date.
RECURSIVE GroupBy(_, _)
GroupBy(merged, fips_order) ==
    IF fips_order = <<>> THEN <<>>
    ELSE GroupsOf(merged, Head(fips_order)) \o GroupBy(merged, Tail(fips_order))

\* The function after the merge: a warning and an empty frame when no zip
\* matched, else the aggregated frame.
AggregateMerged(merged) ==
    IF merged = <<>> THEN [outcome |-> "no_match", rows |-> <<>>]
    ELSE [outcome |-> "returned", rows |-> GroupBy(merged, Lexicographic)]

\* The whole function.  outcome:
\*   empty_input  `if df_zip_travelers.empty or df_zip_fips.empty`;
\*   no_match     the merge is empty;
\*   returned     the aggregated DataFrame was returned.
\* df_zip_travelers is the caller's frame after the call.
LoadTravelerDataFromZip(zip_travelers, zip_fips) ==
    IF zip_travelers = <<>> \/ zip_fips = <<>>
    THEN [outcome |-> "empty_input", rows |-> <<>>,
          df_zip_travelers |-> zip_travelers]
    ELSE [outcome |-> AggregateMerged(MergeInner(NormalizeZips(zip_travelers),
                                                 zip_fips)).outcome,
          rows |-> AggregateMerged(MergeInner(NormalizeZips(zip_travelers),
                                              zip_fips)).rows,
          df_zip_travelers |-> CallerFrame(zip_travelers,
                                           NormalizeZips(zip_travelers))]

\* datetime.strptime(s, '%Y-%m-%d') and pd.to_datetime(s): midnight of the day.
ToDatetime(d) == [t |-> d * Day, aware |-> FALSE]

\* + pd.Timedelta(days=n)
PlusDays(dt, n) == [dt EXCEPT !.t = @ + n * Day]

\* .strftime('%Y-%m-%d')
StrftimeDate(dt) == dt.t \div Day

\* Mutant: the shift is taken from the scenario start to the original start.
DateShift_Reversed(scenario_start, original_start) ==
    (ToDatetime(original_start).t - ToDatetime(scenario_start).t) \div Day

\* date_shift = (scenario_start_dt - original_start).days
DateShift(scenario_start, original_start) ==
    (ToDatetime(scenario_start).t - ToDatetime(original_start).t) \div Day

\* The date column after the two assignments of "Shift dates".
ShiftDates(df, date_shift) ==
    [k \in 1..Len(df) |->
        [df[k] EXCEPT !.date = StrftimeDate(PlusDays(ToDatetime(@), date_shift))]]

\* "For zip code data, adjust dates but keep same zip-to-FIPS mapping":
\* the shifted copy, and the caller's df_zip_travelers after the shift.
ShiftScenario(zip_travelers, scenario_start, original_start) ==
    [df_zip_travelers_scenario |->
         ShiftDates(zip_travelers, DateShift(scenario_start, original_start)),
     df_zip_travelers |->
         CallerFrame(zip_travelers,
                     ShiftDates(zip_travelers,
                                DateShift(scenario_start, original_start)))]

(***************************************************************************)
(* Inputs.                                                                 *)
(***************************************************************************)
\* The timestamp of the k-th raw sample (0-based) when it carries one:
\* day 10, 12:00, then every 16 hours (fetch_hurricane_track sorts the
\* records by valid_time).
TimeAt(k) == 10 * Day + 12 * Hour + k * 16 * Hour

ValidTimeOf(kind, k) ==
    CASE kind = "none" -> NoTime
      [] kind = "bad" -> BadTime
      [] kind = "utc" -> IsoTime(TimeAt(k), TRUE)
      [] kind = "naive" -> IsoTime(TimeAt(k), FALSE)
      [] kind = "late" -> IsoTime(TimeAt(k) + 2 * Hour + 7, TRUE)

\* The k-th raw sample at position pos = <<lat, lon>> (optional numbers);
\* its attributes identify the sample.
Sample(k, pos, kind) ==
    [lat |-> pos[1], lon |-> pos[2], valid_time |-> ValidTimeOf(kind, k),
     maximum_sustained_wind_speed_knots |-> Some(50 + k),
     minimum_sea_level_pressure_hpa |-> Some(990 - k),
     radius_34_knot_winds_ne_km |-> Some(100 + 10 * k)]

\* All tracks of exactly n samples.
RECURSIVE TracksOfLen(_, _, _)
TracksOfLen(n, Positions, Kinds) ==
    IF n = 0 THEN {<<>>}
    ELSE {Append(tr, Sample(n - 1, pos, kind)) :
              tr \in TracksOfLen(n - 1, Positions, Kinds),
              pos \in Positions, kind \in Kinds}

Tracks(max, Positions, Kinds) ==
    UNION {TracksOfLen(n, Positions, Kinds) : n \in 0..max}

RECURSIVE ListsOfLen(_, _)
ListsOfLen(n, Domain) ==
    IF n = 0 THEN {<<>>}
    ELSE {Append(l, x) : l \in ListsOfLen(n - 1, Domain), x \in Domain}

Lists(max, Domain) == UNION {ListsOfLen(n, Domain) : n \in 0..max}

\* Sample positions <<lat, lon>>: four that the filter drops (lat or lon
\* None, lat or lon 0) and positions along latitude 1 and off it.
DropNoLat == <<NoValue, Some(3)>>
DropZeroLat == <<Some(0), Some(3)>>
DropNoLon == <<Some(1), NoValue>>
DropZeroLon == <<Some(1), Some(0)>>
At(lat, lon) == <<Some(lat), Some(lon)>>

\* Regions: ring A spans longitudes 2..4, ring B 4..6, ring C 8..9, all
\* over latitudes 0..2.
RingA == <<2, 0, 4, 2>>
RingB == <<4, 0, 6, 2>>
RingC == <<8, 0, 9, 2>>

PolygonFeature(id, ring) ==
    [id |-> id,
     geometry |-> [present |-> TRUE, type |-> "Polygon", has_coordinates |-> TRUE,
                   coordinates |-> <<ring>>]]

MultiPolygonFeature(id, r1, r2) ==
    [id |-> id,
     geometry |-> [present |-> TRUE, type |-> "MultiPolygon", has_coordinates |-> TRUE,
                   coordinates |-> << <<r1>>, <<r2>> >>]]

\* "geometry": null.
NullGeometryFeature(id) ==
    [id |-> id,
     geometry |-> [present |-> FALSE, type |-> "", has_coordinates |-> FALSE,
                   coordinates |-> <<>>]]

\* A geometry type that is neither Polygon nor MultiPolygon.
LineFeature(id) ==
    [id |-> id,
     geometry |-> [present |-> TRUE, type |-> "LineString", has_coordinates |-> TRUE,
                   coordinates |-> <<>>]]

\* A GeometryCollection: its members are under "geometries", and it has no
\* "coordinates" key.
GeometryCollectionFeature(id) ==
    [id |-> id,
     geometry |-> [present |-> TRUE, type |-> "GeometryCollection",
                   has_coordinates |-> FALSE, coordinates |-> <<>>]]

\* Exposure rows: one per (county, date) key, its count telling the key.
TravelerRow(fips, day) ==
    [county_fips |-> fips, date |-> day,
     expected_travelers |-> 100 * day + (IF fips = "A" THEN 1 ELSE 2)]

AllTravelerRows ==
    <<TravelerRow("A", 10), TravelerRow("A", 11),
      TravelerRow("B", 10), TravelerRow("B", 11)>>

\* The exposure table that holds the rows selected by keep.
TravelerTable(keep) ==
    LET Kept(r) == <<r.county_fips, r.date>> \in keep
    IN  SelectSeq(AllTravelerRows, Kept)

TravelerKeys == {<<"A", 10>>, <<"A", 11>>, <<"B", 10>>, <<"B", 11>>}

\* The exposure table with the counts of the keys in zero set to 0.
ZeroCounts(table, zero) ==
    [k \in 1..Len(table) |->
        IF <<table[k].county_fips, table[k].date>> \in zero
        THEN [table[k] EXCEPT !.expected_travelers = 0]
        ELSE table[k]]

\* Readings of the wall clock (minutes), after the storm.
\* Zip codes as read_csv yields them: 501 (the cell 00501 read as a
\* number), and the 5-digit strings 00501 and 12345.
Zip501 == <<5, 0, 1>>
Zip00501 == <<0, 0, 5, 0, 1>>
Zip12345 == <<1, 2, 3, 4, 5>>

\* Zip-level exposure rows; the count tells the zip cell and the date.
ZipRow(zip, day) ==
    [zip |-> zip, date |-> day, expected_travelers |-> 100 * day + zip[1] + 1]

AllZipRows == {ZipRow(zip, day) : zip \in {Zip501, Zip00501, Zip12345}, day \in {10, 11}}

\* Rows of the zip-to-FIPS mapping, ZIP already 5 digits.
MapRow(zip, fips) == [ZIP |-> zip, FIPS |-> fips]

AllMapRows == {MapRow(zip, fips) : zip \in {Zip00501, Zip12345}, fips \in {"A", "B"}}

NowVals == {20 * Day + 9 * Hour, 20 * Day + 10 * Hour}

(***************************************************************************)
(* The dashboard script.                                                   *)
(***************************************************************************)
NoRun == [set |-> FALSE, now |-> 0, df_counties |-> <<>>, df_impact |-> <<>>,
          df_impact_scenario |-> <<>>]

\* The clock when the script starts.
FirstNow == CHOOSE n \in NowVals : \A m \in NowVals : n <= m

\* The state of the script before it runs.
InitLocals ==
    /\ now = FirstNow
    /\ pc = "start"
    /\ track_coords = <<>>
    /\ start_time = NoStartTime
    /\ county_scan = <<>>
    /\ crossing_outcome = "none"
    /\ df_counties = <<>>
    /\ crossed_fips = {}
    /\ impact_outcome = "none"
    /\ df_impact = <<>>
    /\ scenario_outcome = "none"
    /\ df_impact_scenario = <<>>
    /\ diff = 0
    /\ pct_change = NoPct
    /\ comparison_df = <<>>
    /\ prev_run = NoRun
    /\ zip_pc = "start"
    /\ df_travelers_loaded = <<>>
    /\ df_zip_travelers_scenario = <<>>
    /\ df_travelers_scenario = <<>>

\* The data source is not zip-level: both zip frames stay pd.DataFrame().
NoZipData ==
    /\ df_zip_travelers = <<>>
    /\ df_zip_fips = <<>>
    /\ date = 10

InitWith(TrackSet, FeatureSet, TravelerSet, ScenarioSet) ==
    /\ track_records \in TrackSet
    /\ counties_geojson \in FeatureSet
    /\ df_travelers \in TravelerSet
    /\ scenario_start_date \in ScenarioSet
    /\ shapely = TRUE
    /\ NoZipData
    /\ InitLocals

\* df_counties = get_counties_crossed_with_timing(track_records, counties_geojson)
\* and crossed_fips; the traveler analysis follows under
\* `if not df_counties.empty:`, else the script run ends.
CallGetCounties ==
    /\ pc = "start"
    /\ \E clock \in {n \in NowVals : n >= now} :
        \E r \in {GetCountiesCrossedWithTiming(shapely, track_records,
                                                counties_geojson, clock)} :
            /\ now' = clock
            /\ track_coords' = TrackCoords(track_records)
            /\ start_time' = r.start_time
            /\ county_scan' = r.scans
            /\ crossing_outcome' = r.outcome
            /\ df_counties' = r.rows
            /\ crossed_fips' = GetCountiesCrossed(r.rows)
            /\ pc' = IF r.rows = <<>> THEN "done" ELSE "crossed"
    /\ UNCHANGED <<inputs, zip_locals, impact_outcome, df_impact, scenario_outcome,
                   df_impact_scenario, comparison, prev_run>>

\* df_impact = calculate_impacted_travelers(df_counties, df_travelers);
\* an exception ends the script run, and the what-if analysis is offered
\* under `if not df_impact.empty:` only.
CallCalculateImpacted ==
    /\ pc = "crossed"
    /\ \E r \in {CalculateImpactedTravelers(df_counties, df_travelers, NoValue)} :
           /\ impact_outcome' = r.outcome
           /\ df_impact' = r.rows
           /\ pc' = IF r.rows = <<>> THEN "done" ELSE "impacted"
    /\ UNCHANGED <<inputs, zip_locals, now, track_coords, start_time, county_scan,
                   crossing_outcome, df_counties, crossed_fips, scenario_outcome,
                   df_impact_scenario, comparison, prev_run>>

\* The locals of the comparison, computed under
\* `if not df_impact_scenario.empty:`.
Compare(baseline, scenario) ==
    IF scenario = <<>>
    THEN [diff |-> 0, pct_change |-> NoPct, comparison_df |-> <<>>]
    ELSE [diff |-> Difference(scenario, baseline),
          pct_change |-> PctChange(Difference(scenario, baseline),
                                   SumTravelers(baseline)),
          comparison_df |-> ComparisonDf(baseline, scenario)]

\* "Run What-If Scenario": df_impact_scenario =
\* calculate_impacted_travelers(df_counties, df_travelers_scenario,
\* scenario_start_date=scenario_start), then the difference, the percent
\* change and the comparison table.
CallCalculateScenario ==
    /\ pc = "impacted"
    /\ \E r \in {CalculateImpactedTravelers(df_counties, df_travelers,
                                               scenario_start_date)} :
        \E c \in {Compare(df_impact, r.rows)} :
           /\ scenario_outcome' = r.outcome
           /\ df_impact_scenario' = r.rows
           /\ diff' = c.diff
           /\ pct_change' = c.pct_change
           /\ comparison_df' = c.comparison_df
    /\ pc' = "done"
    /\ UNCHANGED <<inputs, zip_locals, now, track_coords, start_time, county_scan,
                   crossing_outcome, df_counties, crossed_fips, impact_outcome,
                   df_impact, prev_run>>

\* Streamlit runs the script again, top to bottom, on the same inputs.
Rerun ==
    /\ pc = "done"
    /\ ~prev_run.set
    /\ prev_run' = [set |-> TRUE, now |-> now, df_counties |-> df_counties,
                    df_impact |-> df_impact,
                    df_impact_scenario |-> df_impact_scenario]
    /\ pc' = "start"
    /\ track_coords' = <<>>
    /\ start_time' = NoStartTime
    /\ county_scan' = <<>>
    /\ crossing_outcome' = "none"
    /\ df_counties' = <<>>
    /\ crossed_fips' = {}
    /\ impact_outcome' = "none"
    /\ df_impact' = <<>>
    /\ scenario_outcome' = "none"
    /\ df_impact_scenario' = <<>>
    /\ diff' = 0
    /\ pct_change' = NoPct
    /\ comparison_df' = <<>>
    /\ UNCHANGED <<inputs, zip_locals, now>>

\* df_travelers = load_traveler_data_from_zip(df_zip_travelers, df_zip_fips),
\* the zip-level data sources of the sidebar.
LoadTravelers ==
    /\ zip_pc = "start"
    /\ \E r \in {LoadTravelerDataFromZip(df_zip_travelers, df_zip_fips)} :
           /\ df_travelers_loaded' = r.rows
           /\ df_zip_travelers' = r.df_zip_travelers
    /\ zip_pc' = "loaded"
    /\ UNCHANGED <<script, df_zip_fips, df_zip_travelers_scenario,
                   df_travelers_scenario>>

\* "Run What-If Scenario" on zip-level data: the dates of a copy of
\* df_zip_travelers are shifted by scenario_start - date and the copy is
\* mapped to FIPS codes.  (Without zip-level data the script draws random
\* exposure with generate_traveler_data, which is not modelled.)
ShiftAndLoadScenario ==
    /\ zip_pc = "loaded"
    /\ scenario_start_date # NoValue
    /\ df_zip_travelers # <<>>
    /\ df_zip_fips # <<>>
    /\ \E s \in {ShiftScenario(df_zip_travelers, scenario_start_date[1], date)} :
        \E r \in {LoadTravelerDataFromZip(s.df_zip_travelers_scenario, df_zip_fips)} :
           /\ df_zip_travelers' = s.df_zip_travelers
           /\ df_zip_travelers_scenario' = r.df_zip_travelers
           /\ df_travelers_scenario' = r.rows
    /\ zip_pc' = "shifted"
    /\ UNCHANGED <<script, df_zip_fips, df_travelers_loaded>>

Next ==
    \/ CallGetCounties
    \/ CallCalculateImpacted
    \/ CallCalculateScenario
    \/ Rerun

\* The script, run twice on the same inputs.
Init ==
    InitWith(Tracks(MaxTrack, {DropNoLat, At(1, 3), At(1, 5)}, {"none", "utc"}),
             Lists(MaxFeatures, {PolygonFeature("A", RingA), PolygonFeature("B", RingB)}),
             {TravelerTable(TravelerKeys), TravelerTable({<<"A", 11>>})},
             {Some(10), Some(11)})

Spec == Init /\ [][Next]_vars

\* Crossing detection alone, over tracks rich in timestamps and dropped
\* samples and a single region.
InitTiming ==
    InitWith(Tracks(MaxTrack, {DropNoLat, DropZeroLat, At(1, 1), At(1, 3), At(1, 7)},
                    {"none", "bad", "utc", "naive"}),
             {<<PolygonFeature("A", RingA)>>},
             {TravelerTable(TravelerKeys)},
             {Some(10)})

SpecTiming == InitTiming /\ [][CallGetCounties]_vars

\* Crossing detection alone, over tracks and feature collections rich in
\* geometry.
InitRegions ==
    InitWith(Tracks(MaxTrack, {DropZeroLon, At(1, 1), At(1, 3), At(1, 4), At(1, 7)},
                    {"utc"}),
             Lists(MaxFeatures, {PolygonFeature("A", RingA), PolygonFeature("B", RingB),
                                 PolygonFeature("A", RingB),
                                 MultiPolygonFeature("M", RingA, RingC),
                                 PolygonFeature("", RingA),
                                 NullGeometryFeature("N")}),
             {TravelerTable(TravelerKeys)},
             {Some(10)})

SpecRegions == InitRegions /\ [][CallGetCounties]_vars

\* The what-if analysis, over exposure tables with missing keys and zero
\* counts and feature collections that repeat a region id.
InitScenario ==
    InitWith(Tracks(MaxTrack, {At(1, 3), At(1, 5)}, {"utc"}),
             Lists(MaxFeatures, {PolygonFeature("A", RingA), PolygonFeature("B", RingB),
                                 PolygonFeature("A", RingB)}),
             {ZeroCounts(TravelerTable(keep), zero) :
                  keep \in (SUBSET TravelerKeys) \ {{}},
                  zero \in {{}, {<<"A", 10>>, <<"B", 10>>}}},
             {Some(10), Some(11)})

NextScenario ==
    \/ CallGetCounties
    \/ CallCalculateImpacted
    \/ CallCalculateScenario

SpecScenario == InitScenario /\ [][NextScenario]_vars

\* Crossing detection alone, over timestamps that are not whole hours
\* apart (kind "late": 2 h 07 min after the sample's slot).
InitRounding ==
    InitWith(Tracks(MaxTrack, {At(1, 3), At(1, 7)}, {"utc", "late"}),
             {<<PolygonFeature("A", RingA)>>},
             {TravelerTable(TravelerKeys)},
             {Some(10)})

SpecRounding == InitRounding /\ [][CallGetCounties]_vars

\* Crossing detection alone, over every kind of timestamp on samples in
\* the region, outside it and dropped.
InitFirstPoint ==
    InitWith(Tracks(MaxTrack, {DropNoLat, At(1, 3), At(1, 7)},
                    {"none", "bad", "utc", "naive"}),
             {<<PolygonFeature("A", RingA)>>},
             {TravelerTable(TravelerKeys)},
             {Some(10)})

SpecFirstPoint == InitFirstPoint /\ [][CallGetCounties]_vars

\* Crossing detection alone, with and without the geometry library, over
\* empty and non-empty tracks and feature collections.
InitBoundary ==
    /\ track_records \in Tracks(MaxTrack, {DropNoLat, At(1, 3), At(1, 7)},
                                 {"none", "utc"})
    /\ counties_geojson \in Lists(MaxFeatures, {PolygonFeature("A", RingA),
                                                 NullGeometryFeature("N"),
                                                 LineFeature("L")})
    /\ df_travelers = TravelerTable(TravelerKeys)
    /\ scenario_start_date = Some(10)
    /\ shapely \in BOOLEAN
    /\ NoZipData
    /\ InitLocals

SpecBoundary == InitBoundary /\ [][CallGetCounties]_vars

\* Crossing detection alone, over feature collections with features the
\* loop does not handle: no id, a LineString, a GeometryCollection.
InitSkip ==
    InitWith(Tracks(MaxTrack, {At(1, 3), At(1, 5), At(1, 7)}, {"utc"}),
             Lists(MaxFeatures, {PolygonFeature("A", RingA), PolygonFeature("B", RingB),
                                 PolygonFeature("", RingA),
                                 LineFeature("L"),
                                 GeometryCollectionFeature("G")}),
             {TravelerTable(TravelerKeys)},
             {Some(10)})

SpecSkip == InitSkip /\ [][CallGetCounties]_vars

\* The zip-level data path alone, over zip frames with unpadded and
\* repeated zip cells and mappings with repeated rows and zips in two
\* counties.
InitZip ==
    /\ track_records = <<>>
    /\ counties_geojson = <<>>
    /\ df_travelers = <<>>
    /\ scenario_start_date \in {Some(9), Some(10), Some(11)}
    /\ shapely = TRUE
    /\ df_zip_travelers \in Lists(MaxZipRows, AllZipRows)
    /\ df_zip_fips \in Lists(MaxMapRows, AllMapRows)
    /\ date = 10
    /\ InitLocals

NextZip ==
    \/ LoadTravelers
    \/ ShiftAndLoadScenario

SpecZip == InitZip /\ [][NextZip]_vars

\* Every function of the script on one track, in any order of the region
\* path and the zip-level path.
InitAll ==
    /\ track_records = <<Sample(0, At(1, 3), "utc"), Sample(1, At(1, 5), "utc")>>
    /\ counties_geojson = <<PolygonFeature("A", RingA), PolygonFeature("B", RingB)>>
    /\ df_travelers = TravelerTable(TravelerKeys)
    /\ scenario_start_date \in {Some(10), Some(11)}
    /\ shapely = TRUE
    /\ df_zip_travelers \in Lists(MaxZipRows, AllZipRows)
    /\ df_zip_fips \in {<<MapRow(Zip00501, "A")>>,
                        <<MapRow(Zip00501, "A"), MapRow(Zip12345, "B")>>}
    /\ date = 10
    /\ InitLocals

NextAll ==
    \/ CallGetCounties
    \/ CallCalculateImpacted
    \/ CallCalculateScenario
    \/ LoadTravelers
    \/ ShiftAndLoadScenario

SpecAll == InitAll /\ [][NextAll]_vars

(***************************************************************************)
(* Properties.                                                             *)
(***************************************************************************)
\* The crossing function has run in this script run.
CrossingRan == crossing_outcome # "none"

\* The samples the crossing scans index: track_points[i] was built from
\* KeptSamples[i + 1].
KeptSamples == SelectSeq(track_records, IsRetained)

\* A sample carries a timestamp that parses.
UsableTime(r) == HasValidTime(r) /\ CanParse(r.valid_time)

\* The geometry of the feature scanned by loop iteration k.
PolygonOf(k) == BuildPolygon(counties_geojson[k].geometry)

HitScans == {k \in 1..Len(county_scan) : county_scan[k].status = "hit"}

InRows(row, rows) == \E n \in 1..Len(rows) : rows[n] = row

\* C1: when a track point triggers the crossing of a region, the crossing
\* time of the region's record is the timestamp of that triggering sample,
\* or start_time + 6h x index when the sample has no usable timestamp, also
\* when earlier samples were dropped.
C1_PointCrossingTime ==
    crossing_outcome = "returned" =>
        \A k \in HitScans :
            county_scan[k].by = "point" =>
                LET i == county_scan[k].first_crossing_idx
                    sample == KeptSamples[i + 1]
                    time == IF UsableTime(sample)
                            THEN FromIsoFormat(sample.valid_time)
                            ELSE PlusHours(start_time, 6 * i)
                IN  /\ county_scan[k].row.expected_time = Strftime(time)
                    /\ InRows(county_scan[k].row, df_counties)

\* C2 (as claimed): the record of a region corresponds to the earliest track
\* element by index, point or segment, that satisfies the crossing predicate:
\* no point and no segment with a smaller index than the reported one
\* triggers.
C2_EarliestElement ==
    CrossingRan =>
        \A k \in HitScans :
            \A j \in 1..county_scan[k].first_crossing_idx :
                /\ ~PointTriggers(PolygonOf(k), TrackPoints(track_records)[j])
                /\ ~LineTriggers(PolygonOf(k), TrackLines(track_records)[j])

\* C2 (amended): points are scanned first.  A point record reports the
\* earliest triggering point; a segment record exists only when no point
\* triggers and reports the earliest triggering segment; a region that was
\* scanned without a record is triggered by no point and no segment.
C2_PointsBeforeSegments ==
    CrossingRan =>
        \A k \in 1..Len(county_scan) :
            LET points == TrackPoints(track_records)
                lines == TrackLines(track_records)
                i == county_scan[k].first_crossing_idx
            IN  /\ (county_scan[k].status = "hit" /\ county_scan[k].by = "point") =>
                       /\ PointTriggers(PolygonOf(k), points[i + 1])
                       /\ \A j \in 1..i : ~PointTriggers(PolygonOf(k), points[j])
                /\ (county_scan[k].status = "hit" /\ county_scan[k].by = "segment") =>
                       /\ \A j \in 1..Len(points) : ~PointTriggers(PolygonOf(k), points[j])
                       /\ LineTriggers(PolygonOf(k), lines[i + 1])
                       /\ \A j \in 1..i : ~LineTriggers(PolygonOf(k), lines[j])
                /\ county_scan[k].status = "none" =>
                       /\ \A j \in 1..Len(points) : ~PointTriggers(PolygonOf(k), points[j])
                       /\ \A j \in 1..Len(lines) : ~LineTriggers(PolygonOf(k), lines[j])

\* C2 witness: a point record at index 2 although segment 0 already
\* intersects the region.
C2_Witness ==
    \E k \in HitScans :
        /\ county_scan[k].by = "point"
        /\ county_scan[k].first_crossing_idx = 2
        /\ LineTriggers(PolygonOf(k), TrackLines(track_records)[1])
        /\ InRows(county_scan[k].row, df_counties)

\* C3: the number of records never exceeds the number of regions and no
\* region id appears in more than one record.
C3_OneRecordPerRegion ==
    crossing_outcome = "returned" =>
        /\ Len(df_counties) <= Len(counties_geojson)
        /\ \A a, b \in 1..Len(df_counties) :
               a # b => df_counties[a].county_fips # df_counties[b].county_fips

\* C4: a segment record of segment i carries the exact midpoint of the
\* timestamps of points i and i+1 when both are present, and
\* start_time + 6h x i + 3h when either is missing.  (Endpoints whose
\* timestamps both parse and agree in carrying a UTC marker.)
C4_SegmentMidpoint ==
    crossing_outcome = "returned" =>
        \A k \in HitScans :
            county_scan[k].by = "segment" =>
                LET i == county_scan[k].first_crossing_idx
                    p1 == KeptSamples[i + 1]
                    p2 == KeptSamples[i + 2]
                IN  /\ (UsableTime(p1) /\ UsableTime(p2)
                        /\ p1.valid_time.utc = p2.valid_time.utc) =>
                           county_scan[k].row.expected_time =
                               Strftime(Midpoint(FromIsoFormat(p1.valid_time),
                                                 FromIsoFormat(p2.valid_time)))
                    /\ (~HasValidTime(p1) \/ ~HasValidTime(p2)) =>
                           county_scan[k].row.expected_time =
                               Strftime(PlusHours(start_time, 6 * i + 3))

\* C5: an error raised while processing one region counts as "no crossing"
\* for that region only: every region that crosses still has its record.
C5_RegionErrorIsolated ==
    (CrossingRan /\ track_records # <<>>) =>
        \A k \in 1..Len(counties_geojson) :
            \A scan \in {ScanFeature(counties_geojson[k], track_records, start_time)} :
                scan.status = "hit" => InRows(scan.row, df_counties)

\* C6: with a non-empty crossing list and a non-empty exposure set,
\* calculate_impacted_travelers never raises, also when no region has a match.
C6_NoMatchNoError ==
    (df_counties # <<>> /\ df_travelers # <<>>) =>
        (impact_outcome # "raised" /\ scenario_outcome # "raised")

\* d is the calendar date of the instant scenario start (midnight) plus
\* relative_days (hundredths of a day).
IsDateOfShift(d, scenario, relative_days) ==
    /\ d * 100 <= scenario[1] * 100 + relative_days
    /\ scenario[1] * 100 + relative_days < (d + 1) * 100

\* The impact row r was derived from the crossing row c.
DerivedFrom(r, c) ==
    /\ r.county_fips = c.county_fips
    /\ r.relative_hours = c.relative_hours
    /\ r.relative_days = c.relative_days
    /\ r.expected_time.time = c.expected_time.time

HasExposure(fips, d) ==
    \E n \in 1..Len(df_travelers) :
        df_travelers[n].county_fips = fips /\ df_travelers[n].date = d

\* C7 (as claimed): with a scenario start the impact date is scenario_start
\* plus relative_days rounded to a whole number of days; without, it is the
\* date of the crossing time.
C7_RoundedImpactDate ==
    /\ scenario_outcome = "returned" =>
           \A n \in 1..Len(df_impact_scenario) :
               df_impact_scenario[n].impact_date =
                   scenario_start_date[1]
                   + RoundHalfEven(df_impact_scenario[n].relative_days, 100)
    /\ impact_outcome = "returned" =>
           \A n \in 1..Len(df_impact) :
               df_impact[n].impact_date = df_impact[n].expected_time.date

\* C7 (amended): with a scenario start the impact date is the calendar date
\* of the instant scenario_start + relative_days, that is relative_days is
\* truncated (floor), not rounded; without, it is the date of the crossing
\* time.  A record is emitted exactly for the crossings with an exposure row
\* on that date.
C7_ImpactDate ==
    /\ scenario_outcome = "returned" =>
           /\ \A n \in 1..Len(df_impact_scenario) :
                  \E m \in 1..Len(df_counties) :
                      /\ DerivedFrom(df_impact_scenario[n], df_counties[m])
                      /\ IsDateOfShift(df_impact_scenario[n].impact_date,
                                       scenario_start_date,
                                       df_counties[m].relative_days)
           /\ \A m \in 1..Len(df_counties) :
                  \A d \in 0..30 :
                      (IsDateOfShift(d, scenario_start_date, df_counties[m].relative_days)
                       /\ HasExposure(df_counties[m].county_fips, d)) =>
                          \E n \in 1..Len(df_impact_scenario) :
                              /\ DerivedFrom(df_impact_scenario[n], df_counties[m])
                              /\ df_impact_scenario[n].impact_date = d
    /\ impact_outcome = "returned" =>
           /\ \A n \in 1..Len(df_impact) :
                  \E m \in 1..Len(df_counties) :
                      /\ DerivedFrom(df_impact[n], df_counties[m])
                      /\ df_impact[n].impact_date = df_counties[m].expected_time.date
           /\ \A m \in 1..Len(df_counties) :
                  HasExposure(df_counties[m].county_fips,
                              df_counties[m].expected_time.date) =>
                      \E n \in 1..Len(df_impact) :
                          /\ DerivedFrom(df_impact[n], df_counties[m])
                          /\ df_impact[n].impact_date =
                                 df_counties[m].expected_time.date

\* C7 witness: a scenario record whose relative_days has a fraction of at
\* least half a day, next to a baseline record.
C7_Witness ==
    /\ scenario_outcome = "returned"
    /\ impact_outcome = "returned"
    /\ \E n \in 1..Len(df_impact_scenario) :
           df_impact_scenario[n].relative_days % 100 >= 50

\* A sample has both a lat and a lon, whatever their values.
HasLatLon(r) == r.lat # NoValue /\ r.lon # NoValue

\* C8: normalization excludes a sample if and only if its lat or lon is
\* missing, and keeps the others in their original order.
C8_DropOnlyMissing ==
    CrossingRan => track_coords = MapLatLon(SelectSeq(track_records, HasLatLon))

\* C9: start_time is the timestamp of the first retained sample, or the
\* current time if that timestamp is absent.
C9_StartTimeFirstRetained ==
    (CrossingRan /\ KeptSamples # <<>>) =>
        start_time = IF UsableTime(KeptSamples[1])
                     THEN FromIsoFormat(KeptSamples[1].valid_time)
                     ELSE DatetimeNow(now)

\* The script ran a second time and its outputs equal those of the first run.
SecondRunDone == prev_run.set /\ pc = "done"

SameOutputs ==
    /\ df_counties = prev_run.df_counties
    /\ df_impact = prev_run.df_impact
    /\ df_impact_scenario = prev_run.df_impact_scenario

\* C10 (as claimed): identical inputs produce identical, identically ordered
\* crossing and impact lists on every repeated run.
C10_Deterministic == SecondRunDone => SameOutputs

\* C10 (amended): identical inputs whose first track record carries a
\* timestamp that parses produce identical, identically ordered lists on
\* every repeated run; otherwise start_time is the clock and the lists
\* depend on when the run happens.
C10_DeterministicGivenStart ==
    (SecondRunDone /\ track_records # <<>> /\ UsableTime(track_records[1]))
        => SameOutputs

\* C10 witness: a second run at a later clock reading whose lists hold a
\* record timed by the start_time + 6h x index fallback.
C10_Witness ==
    /\ SecondRunDone
    /\ track_records # <<>>
    /\ UsableTime(track_records[1])
    /\ prev_run.now # now
    /\ df_impact_scenario # <<>>
    /\ \E k \in HitScans :
           ~UsableTime(track_records[county_scan[k].first_crossing_idx + 1])

\* The what-if comparison was computed in this script run.
Compared == scenario_outcome = "returned"

RECURSIVE SumDifference(_)
SumDifference(rows) ==
    IF rows = <<>> THEN 0 ELSE Head(rows).difference + SumDifference(Tail(rows))

\* C11: the differences of the rows of the comparison table sum to the
\* scenario total minus the baseline total.
C11_DifferenceSum ==
    Compared =>
        SumDifference(comparison_df)
            = SumTravelers(df_impact_scenario) - SumTravelers(df_impact)

FipsOf(df) == {df[k].county_fips : k \in 1..Len(df)}

\* The cell pair <<date, count>> of a row's side comes from a record of df
\* for the row's region, or is absent when df has no record for it.
SideOf(fips, day, count, df) ==
    IF fips \in FipsOf(df)
    THEN \E k \in 1..Len(df) :
             /\ df[k].county_fips = fips
             /\ day = <<df[k].impact_date>>
             /\ count = <<df[k].travelers_impacted>>
    ELSE day = <<>> /\ count = <<>>

\* C12: the comparison table is the outer join on region id of the baseline
\* and scenario impact records: every region id of either list has a row,
\* every row pairs a baseline and a scenario record of its region, a side
\* without a record is absent and counts 0 in the difference, and every row
\* has difference = scenario count - baseline count.
C12_OuterJoin ==
    Compared =>
        /\ FipsOf(comparison_df) = FipsOf(df_impact) \cup FipsOf(df_impact_scenario)
        /\ \A n \in 1..Len(comparison_df) :
               /\ SideOf(comparison_df[n].county_fips,
                         comparison_df[n].original_date,
                         comparison_df[n].original_travelers, df_impact)
               /\ SideOf(comparison_df[n].county_fips,
                         comparison_df[n].scenario_date,
                         comparison_df[n].scenario_travelers, df_impact_scenario)
               /\ comparison_df[n].difference
                      = (IF comparison_df[n].scenario_travelers = <<>> THEN 0
                         ELSE comparison_df[n].scenario_travelers[1])
                        - (IF comparison_df[n].original_travelers = <<>> THEN 0
                           ELSE comparison_df[n].original_travelers[1])
        /\ \A a \in 1..Len(df_impact) : \A b \in 1..Len(df_impact_scenario) :
               df_impact[a].county_fips = df_impact_scenario[b].county_fips =>
                   \E n \in 1..Len(comparison_df) :
                       /\ comparison_df[n].county_fips = df_impact[a].county_fips
                       /\ comparison_df[n].original_travelers
                              = <<df_impact[a].travelers_impacted>>
                       /\ comparison_df[n].scenario_travelers
                              = <<df_impact_scenario[b].travelers_impacted>>

\* C12 witness: a table with a region of the baseline only and a region of
\* the scenario only.
C12_Witness ==
    /\ Compared
    /\ \E n, m \in 1..Len(comparison_df) :
           /\ comparison_df[n].scenario_travelers = <<>>
           /\ comparison_df[n].difference < 0
           /\ comparison_df[m].original_travelers = <<>>
           /\ comparison_df[m].difference > 0

\* C13: percent change is difference / baseline total x 100, exactly 0 when
\* the baseline total is 0, and its computation never divides by zero
\* (exposure counts are non-negative).
C13_PercentChange ==
    Compared =>
        /\ diff = SumTravelers(df_impact_scenario) - SumTravelers(df_impact)
        /\ pct_change.den # 0
        /\ SumTravelers(df_impact) = 0 => pct_change.num = 0
        /\ SumTravelers(df_impact) # 0 =>
               pct_change.num * SumTravelers(df_impact)
                   = diff * 100 * pct_change.den

\* C13 witness: a baseline total of 0 next to a positive scenario total.
C13_Witness ==
    /\ Compared
    /\ SumTravelers(df_impact) = 0
    /\ SumTravelers(df_impact_scenario) > 0
    /\ pct_change.num = 0

\* The rows of df_counties that have an exposure row on their impact date,
\* the scenario start being scenario (NoValue: the baseline).
Matched(scenario) ==
    {m \in 1..Len(df_counties) :
        \E d \in 0..30 :
            /\ IF scenario = NoValue THEN d = df_counties[m].expected_time.date
               ELSE IsDateOfShift(d, scenario, df_counties[m].relative_days)
            /\ HasExposure(df_counties[m].county_fips, d)}

\* Every row of impact carries the count of the exposure row of its
\* (region, impact date).
CountsMatched(impact) ==
    \A n \in 1..Len(impact) :
        \E t \in 1..Len(df_travelers) :
            /\ df_travelers[t].county_fips = impact[n].county_fips
            /\ df_travelers[t].date = impact[n].impact_date
            /\ df_travelers[t].expected_travelers = impact[n].travelers_impacted

\* C14: an impact record is emitted for a crossing record if and only if an
\* exposure row exists for (region, impact date): there are as many impact
\* records as matched crossing records, none zero-filled, each with the
\* matched exposure count.
C14_EmitIffMatch ==
    /\ impact_outcome # "none" =>
           /\ Len(df_impact) = Cardinality(Matched(NoValue))
           /\ CountsMatched(df_impact)
    /\ scenario_outcome # "none" =>
           /\ Len(df_impact_scenario) = Cardinality(Matched(scenario_start_date))
           /\ CountsMatched(df_impact_scenario)

\* C14 witness: a baseline list and a scenario list that each exclude a
\* crossed region and keep another.
C14_Witness ==
    /\ scenario_outcome = "returned"
    /\ 0 < Len(df_impact) /\ Len(df_impact) < Len(df_counties)
    /\ Len(df_impact_scenario) < Len(df_counties)

\* The permutations of 1..n.
Perms(n) == {f \in [1..n -> 1..n] : \A a, b \in 1..n : a # b => f[a] # f[b]}

\* county_data when the regions' rows are appended in the order f.
AppendedIn(f) ==
    [k \in 1..Len(CountyData(county_scan)) |-> CountyData(county_scan)[f[k]]]

IsRegion(k) ==
    /\ counties_geojson[k].id # ""
    /\ counties_geojson[k].geometry.present
    /\ counties_geojson[k].geometry.type \in {"Polygon", "MultiPolygon"}

\* No point of the track lies in or on region k and no segment intersects it.
Untouched(k) ==
    /\ \A j \in 1..Len(TrackPoints(track_records)) :
           ~PointTriggers(PolygonOf(k), TrackPoints(track_records)[j])
    /\ \A j \in 1..Len(TrackLines(track_records)) :
           ~LineTriggers(PolygonOf(k), TrackLines(track_records)[j])

\* C16: a track that triggers no region of a non-empty collection of
\* regions yields an empty list, returned normally (no error is reported).
C16_NoCrossingEmptyList ==
    (/\ CrossingRan
     /\ KeptSamples # <<>>
     /\ counties_geojson # <<>>
     /\ \A k \in 1..Len(counties_geojson) : IsRegion(k) /\ Untouched(k))
        => (df_counties = <<>> /\ crossing_outcome = "returned")

\* C17: when the first point of the track lies in or on a region, the
\* region's record is a point crossing of index 0 with relative_hours 0,
\* whether or not the first sample carries a timestamp.
C17_FirstPointInside ==
    (CrossingRan /\ KeptSamples # <<>>) =>
        \A k \in 1..Len(county_scan) :
            (IsRegion(k)
             /\ PointTriggers(PolygonOf(k), TrackPoints(track_records)[1])) =>
                /\ county_scan[k].status = "hit"
                /\ county_scan[k].by = "point"
                /\ county_scan[k].first_crossing_idx = 0
                /\ county_scan[k].row.relative_hours = 0
                /\ crossing_outcome = "returned" =>
                       InRows(county_scan[k].row, df_counties)

\* C17 witness: the first retained sample lies in the region and carries a
\* timestamp, while the first raw sample was dropped and carries none.
C17_Witness ==
    /\ crossing_outcome = "returned"
    /\ Len(track_records) >= 2
    /\ ~IsRetained(track_records[1])
    /\ ~HasValidTime(track_records[1])
    /\ UsableTime(KeptSamples[1])
    /\ PointTriggers(PolygonOf(1), TrackPoints(track_records)[1])
    /\ df_counties[1].relative_hours = 0

\* C18 (as claimed): relative_days is round(relative_hours / 24, 2) of the
\* record's own, rounded, relative_hours.
C18_DaysFromRoundedHours ==
    crossing_outcome = "returned" =>
        \A n \in 1..Len(df_counties) :
            df_counties[n].relative_days
                = RoundHalfEven(df_counties[n].relative_hours, 24)

\* The minutes from start_time to the crossing time of a row.
MinutesOf(row) == row.expected_time.date * Day + row.expected_time.time - start_time.t

\* C18 (amended): relative_days is the unrounded elapsed time in days,
\* rounded to 2 decimals; it lies within 0.01 of round(relative_hours / 24, 2)
\* computed from the record's rounded relative_hours.
C18_DaysFromExactHours ==
    crossing_outcome = "returned" =>
        \A n \in 1..Len(df_counties) :
            /\ df_counties[n].relative_hours
                   = RoundHalfEven(MinutesOf(df_counties[n]) * 100, Hour)
            /\ df_counties[n].relative_days
                   = RoundHalfEven(MinutesOf(df_counties[n]) * 100, Day)
            /\ df_counties[n].relative_days
                   - RoundHalfEven(df_counties[n].relative_hours, 24) \in {-1, 0, 1}

\* C18 witness: a record whose relative_days differs from the value
\* computed from its rounded relative_hours.
C18_Witness ==
    /\ crossing_outcome = "returned"
    /\ \E n \in 1..Len(df_counties) :
           df_counties[n].relative_days
               # RoundHalfEven(df_counties[n].relative_hours, 24)

\* C19: the returned list is ascending by relative_hours.
C19_Ascending ==
    crossing_outcome = "returned" =>
        \A n \in 1..(Len(df_counties) - 1) :
            df_counties[n].relative_hours <= df_counties[n + 1].relative_hours

\* C19 witness: rows detected in descending order of relative_hours and
\* returned in ascending order.
C19_Witness ==
    /\ crossing_outcome = "returned"
    /\ Len(CountyData(county_scan)) >= 2
    /\ CountyData(county_scan)[1].relative_hours
           > CountyData(county_scan)[2].relative_hours
    /\ df_counties[1].relative_hours < df_counties[2].relative_hours

\* C20: get_counties_crossed_with_timing always returns; without the
\* geometry library, with an empty track or with an empty region
\* collection it returns an empty result, for which the callers hold an
\* empty set of regions and run no traveler analysis.
C20_NeverRaises ==
    CrossingRan =>
        /\ crossing_outcome \in {"unavailable", "no_track", "error", "returned"}
        /\ (~shapely \/ track_records = <<>> \/ counties_geojson = <<>>) =>
               /\ df_counties = <<>>
               /\ crossed_fips = {}
               /\ pc = "done"
        /\ ~shapely => crossing_outcome = "unavailable"
        /\ (shapely /\ track_records = <<>>) => crossing_outcome = "no_track"
        /\ crossed_fips = GetCountiesCrossed(df_counties)

\* C20 witness: an empty region collection next to a track with retained
\* samples: the exception of the sort is absorbed.
C20_Witness ==
    /\ CrossingRan
    /\ shapely
    /\ KeptSamples # <<>>
    /\ counties_geojson = <<>>
    /\ crossing_outcome = "error"
    /\ df_counties = <<>>

\* The feature of loop iteration k has no id, or a geometry whose type is
\* neither Polygon nor MultiPolygon.
Unsupported(k) ==
    \/ counties_geojson[k].id = ""
    \/ /\ counties_geojson[k].geometry.present
       /\ counties_geojson[k].geometry.type \notin {"Polygon", "MultiPolygon"}

\* The feature collection without its k-th feature.
Without(k) ==
    SubSeq(counties_geojson, 1, k - 1)
        \o SubSeq(counties_geojson, k + 1, Len(counties_geojson))

\* C21: a feature without id, or whose geometry type is neither Polygon nor
\* MultiPolygon, is skipped: the returned records are exactly those the
\* function returns for the collection without that feature.
C21_UnsupportedSkipped ==
    CrossingRan =>
        \A k \in 1..Len(counties_geojson) :
            Unsupported(k) =>
                df_counties = GetCountiesCrossedWithTiming(
                                  shapely, track_records, Without(k), now).rows

\* The attribute snapshot of a crossing row is that of the sample.
SnapshotOf(row, sample) ==
    /\ row.lat = sample.lat
    /\ row.lon = sample.lon
    /\ row.wind_speed_knots = sample.maximum_sustained_wind_speed_knots
    /\ row.pressure_hpa = sample.minimum_sea_level_pressure_hpa
    /\ row.radius_km = sample.radius_34_knot_winds_ne_km

\* The impact row r carries the attributes of the crossing row c.
CarriedFrom(r, c) ==
    /\ DerivedFrom(r, c)
    /\ r.wind_speed_knots = c.wind_speed_knots
    /\ r.pressure_hpa = c.pressure_hpa
    /\ r.radius_km = c.radius_km

\* C22: the attribute snapshot (lat, lon, wind, pressure, radius) of a
\* crossing record is that of the track element that triggered it (the
\* point, or point i of segment i), and every impact record carries the
\* snapshot of its crossing record unchanged.
C22_Snapshot ==
    /\ crossing_outcome = "returned" =>
           \A k \in HitScans :
               /\ SnapshotOf(county_scan[k].row,
                             KeptSamples[county_scan[k].first_crossing_idx + 1])
               /\ InRows(county_scan[k].row, df_counties)
    /\ impact_outcome = "returned" =>
           \A n \in 1..Len(df_impact) :
               \E m \in 1..Len(df_counties) : CarriedFrom(df_impact[n], df_counties[m])

\* Point j (0-based) of the track lies exactly on the boundary of region k
\* and in the interior of none of its rings.
OnBoundary(k, j) ==
    /\ \E n \in 1..Len(PolygonOf(k)) :
           RingTouches(PolygonOf(k)[n], TrackPoints(track_records)[j + 1])
    /\ \A n \in 1..Len(PolygonOf(k)) :
           ~RingContains(PolygonOf(k)[n], TrackPoints(track_records)[j + 1])

\* The time of the sample behind track point i: its timestamp, or the
\* fallback start_time + 6h x i.
PointTime(i) ==
    IF UsableTime(KeptSamples[i + 1])
    THEN FromIsoFormat(KeptSamples[i + 1].valid_time)
    ELSE PlusHours(start_time, 6 * i)

\* C24: a region with a track point exactly on its boundary gets a point
\* crossing, also when a segment intersects it: its record reports the
\* first triggering point and that point's time, never a segment midpoint.
C24_BoundaryPoint ==
    crossing_outcome = "returned" =>
        \A k \in 1..Len(county_scan) :
            (/\ IsRegion(k)
             /\ \E j \in 0..(Len(TrackPoints(track_records)) - 1) : OnBoundary(k, j)) =>
                /\ county_scan[k].status = "hit"
                /\ county_scan[k].by = "point"
                /\ PointTriggers(PolygonOf(k),
                                 TrackPoints(track_records)[county_scan[k].first_crossing_idx + 1])
                /\ county_scan[k].row.expected_time
                       = Strftime(PointTime(county_scan[k].first_crossing_idx))
                /\ InRows(county_scan[k].row, df_counties)

\* C26: in every impact record the date of expected_time is impact_date;
\* in scenario mode the time of day is that of the crossing record.
C26_ExpectedTimeDate ==
    /\ impact_outcome = "returned" =>
           \A n \in 1..Len(df_impact) :
               /\ df_impact[n].expected_time.date = df_impact[n].impact_date
               /\ \E m \in 1..Len(df_counties) :
                      /\ DerivedFrom(df_impact[n], df_counties[m])
                      /\ df_impact[n].expected_time = df_counties[m].expected_time
    /\ scenario_outcome = "returned" =>
           \A n \in 1..Len(df_impact_scenario) :
               /\ df_impact_scenario[n].expected_time.date
                      = df_impact_scenario[n].impact_date
               /\ \E m \in 1..Len(df_counties) :
                      DerivedFrom(df_impact_scenario[n], df_counties[m])

\* C26 witness: a scenario record re-stamped to a date other than the date
\* of its crossing record, with the crossing record's time of day.
C26_Witness ==
    /\ scenario_outcome = "returned"
    /\ \E n \in 1..Len(df_impact_scenario) :
           \E m \in 1..Len(df_counties) :
               /\ DerivedFrom(df_impact_scenario[n], df_counties[m])
               /\ df_impact_scenario[n].impact_date # df_counties[m].expected_time.date
               /\ df_impact_scenario[n].expected_time.date
                      = df_impact_scenario[n].impact_date
               /\ df_impact_scenario[n].expected_time.time
                      = df_counties[m].expected_time.time

\* Every row of impact is derived from a row of df_counties of its own:
\* there is a one-to-one assignment of impact rows to crossing rows.
OnePerCrossing(impact) ==
    \E f \in [1..Len(impact) -> 1..Len(df_counties)] :
        /\ \A a, b \in 1..Len(impact) : f[a] = f[b] => a = b
        /\ \A a \in 1..Len(impact) : DerivedFrom(impact[a], df_counties[f[a]])

AscendingHours(rows) ==
    \A n \in 1..(Len(rows) - 1) : rows[n].relative_hours <= rows[n + 1].relative_hours

\* C27: there is at most one impact record per crossing record, each with
\* the region id, relative_hours and relative_days of its crossing record,
\* and the impact list is ascending by relative_hours.
C27_OnePerCrossing ==
    /\ impact_outcome = "returned" =>
           /\ Len(df_impact) <= Len(df_counties)
           /\ OnePerCrossing(df_impact)
           /\ AscendingHours(df_impact)
    /\ scenario_outcome = "returned" =>
           /\ Len(df_impact_scenario) <= Len(df_counties)
           /\ OnePerCrossing(df_impact_scenario)
           /\ AscendingHours(df_impact_scenario)

\* C27 witness: two baseline records in ascending order, and a scenario
\* list with fewer records than crossing records.
C27_Witness ==
    /\ scenario_outcome = "returned"
    /\ Len(df_impact) = 2
    /\ df_impact[1].relative_hours < df_impact[2].relative_hours
    /\ Len(df_impact_scenario) = 1
    /\ Len(df_counties) = 2

\* The (region, impact date, count) triples of an impact list, in order.
ImpactTriples(impact) ==
    [n \in 1..Len(impact) |->
        [county_fips |-> impact[n].county_fips,
         impact_date |-> impact[n].impact_date,
         travelers_impacted |-> impact[n].travelers_impacted]]

\* C28: a scenario whose start is the calendar date of start_time, on the
\* same exposure set, yields for every region the impact date and the
\* count of the baseline run.
C28_ZeroShift ==
    (/\ scenario_outcome # "none"
     /\ scenario_start_date = Some(start_time.t \div Day)) =>
        ImpactTriples(df_impact_scenario) = ImpactTriples(df_impact)

\* The timestamps of the track that parse are non-decreasing in track order.
TimestampsAscend ==
    \A a, b \in 1..Len(track_records) :
        (a < b /\ UsableTime(track_records[a]) /\ UsableTime(track_records[b])) =>
            FromIsoFormat(track_records[a].valid_time).t
                <= FromIsoFormat(track_records[b].valid_time).t

\* C29 (as claimed): for a track whose timestamps are non-decreasing, every
\* crossing record has relative_hours >= 0, whichever samples lack a
\* timestamp that parses.
C29_NonNegative ==
    (crossing_outcome = "returned" /\ TimestampsAscend) =>
        \A n \in 1..Len(df_counties) : df_counties[n].relative_hours >= 0

\* C29 (amended): the same, for tracks whose first record carries a
\* timestamp that parses.
C29_NonNegativeGivenStart ==
    (/\ crossing_outcome = "returned"
     /\ TimestampsAscend
     /\ UsableTime(track_records[1])) =>
        \A n \in 1..Len(df_counties) : df_counties[n].relative_hours >= 0

\* C29 witness: the first record has a timestamp, the sample whose index
\* the crossing reports has none, and the record is dated after start_time.
C29_Witness ==
    /\ crossing_outcome = "returned"
    /\ UsableTime(track_records[1])
    /\ \E k \in HitScans :
           /\ ~UsableTime(track_records[county_scan[k].first_crossing_idx + 1])
           /\ county_scan[k].row.relative_hours > 0
           /\ InRows(county_scan[k].row, df_counties)

\* The what-if date shift on zip-level data has run.
Shifted == zip_pc = "shifted"

\* The row s is the row r with its date moved by days; the other fields
\* (zip or region, count) are those of r.
MovedBy(s, r, days) == s = [r EXCEPT !.date = @ + days]

\* C25: with zip-level data the scenario exposure is the baseline exposure
\* with every date shifted by scenario_start - original_start days,
\* row for row, zip (or region) and count unchanged.
C25_DatesShifted ==
    Shifted =>
        /\ Len(df_zip_travelers_scenario) = Len(df_zip_travelers)
        /\ \A k \in 1..Len(df_zip_travelers) :
               MovedBy(df_zip_travelers_scenario[k], df_zip_travelers[k],
                       scenario_start_date[1] - date)
        /\ Len(df_travelers_scenario) = Len(df_travelers_loaded)
        /\ \A k \in 1..Len(df_travelers_loaded) :
               MovedBy(df_travelers_scenario[k], df_travelers_loaded[k],
                       scenario_start_date[1] - date)

\* C25 witness: a shift that is not zero, applied to exposure on two dates
\* that maps to a region.
C25_Witness ==
    /\ Shifted
    /\ scenario_start_date[1] # date
    /\ Len(df_travelers_scenario) = 2
    /\ Len(df_zip_travelers) = 2
    /\ df_zip_travelers[1].date # df_zip_travelers[2].date
    /\ df_zip_travelers_scenario[1].date
           = df_zip_travelers[1].date + scenario_start_date[1] - date

\* The FIPS codes the mapping gives for a zip cell.
FipsOfZip(zip) ==
    {df_zip_fips[m].FIPS : m \in {n \in 1..Len(df_zip_fips) :
                                      df_zip_fips[n].ZIP = ZFill(zip, 5)}}

\* The travelers of the input rows of date d whose zip maps to fips, each
\* input row counted once.
RECURSIVE InputSum(_, _, _)
InputSum(rows, fips, d) ==
    IF rows = <<>> THEN 0
    ELSE (IF Head(rows).date = d /\ fips \in FipsOfZip(Head(rows).zip)
          THEN Head(rows).expected_travelers ELSE 0)
         + InputSum(Tail(rows), fips, d)

\* The travelers of the rows of date d.
RECURSIVE DateTotal(_, _)
DateTotal(rows, d) ==
    IF rows = <<>> THEN 0
    ELSE (IF Head(rows).date = d THEN Head(rows).expected_travelers ELSE 0)
         + DateTotal(Tail(rows), d)

\* C30: load_traveler_data_from_zip returns at most one row per
\* (county_fips, date); its count is the sum over the input rows whose zip
\* maps to the county on that date; and when every input zip maps to
\* exactly one FIPS code the total per date is that of the input, no
\* traveler being counted twice.
C30_AggregatedOnce ==
    zip_pc # "start" =>
        /\ \A a, b \in 1..Len(df_travelers_loaded) :
               (/\ df_travelers_loaded[a].county_fips = df_travelers_loaded[b].county_fips
                /\ df_travelers_loaded[a].date = df_travelers_loaded[b].date) => a = b
        /\ \A n \in 1..Len(df_travelers_loaded) :
               df_travelers_loaded[n].expected_travelers
                   = InputSum(df_zip_travelers, df_travelers_loaded[n].county_fips,
                              df_travelers_loaded[n].date)
        /\ (\A k \in 1..Len(df_zip_travelers) :
                Cardinality(FipsOfZip(df_zip_travelers[k].zip)) = 1) =>
               \A d \in {10, 11} :
                   DateTotal(df_travelers_loaded, d) = DateTotal(df_zip_travelers, d)

\* C23: no step of the script changes its inputs: the track records, the
\* feature collection and the exposure tables (region-level and zip-level,
\* and the mapping) are the same after get_counties_crossed_with_timing,
\* calculate_impacted_travelers, load_traveler_data_from_zip and the
\* what-if date shift as before; calculate_impacted_travelers leaves the
\* crossing list it is given unchanged.
C23_InputsReadOnly ==
    [][/\ track_records' = track_records
       /\ counties_geojson' = counties_geojson
       /\ df_travelers' = df_travelers
       /\ df_zip_travelers' = df_zip_travelers
       /\ df_zip_fips' = df_zip_fips
       /\ pc \in {"crossed", "impacted"} => df_counties' = df_counties]_vars

\* C23 witness: all four operations have run, the zip cells were padded
\* and the dates shifted in the copies, and the caller's zip frame still
\* holds the unpadded cell and the original date.
C23_Witness ==
    /\ scenario_outcome = "returned"
    /\ Shifted
    /\ df_travelers_loaded # <<>>
    /\ Len(df_zip_travelers) >= 1
    /\ df_zip_travelers[1] = ZipRow(Zip501, 10)
    /\ df_zip_travelers_scenario[1].date = 11

====
